---- MODULE Spec2Model ----
(***************************************************************************)
(* Model of scrape.py: a one-shot directory scraper.  main() parses the    *)
(* command line, normalises the directory and ignore lists, and calls      *)
(* scrape_directories, which walks every directory with os.walk and        *)
(* collects a record for every file that passes scrape_file.               *)
(*                                                                         *)
(* Strings are sequences of one-character strings, so that split, the      *)
(* substring test `in`, os.path.normpath, dirname, basename and join are   *)
(* computed character by character as Python computes them.                *)
(* The timestamp field scraped_at of a record is not modelled.             *)
(***************************************************************************)
EXTENDS Integers, Sequences, FiniteSets, TLC

VARIABLES
    pc,               \* position of the run
    args,             \* the parsed command line (argparse Namespace)
    extensions,       \* set of extensions handed to scrape_directories
    directories,      \* list of directories handed to scrape_directories
    ignore_dirs,      \* list of ignore entries handed to scrape_directories
    max_size,         \* per-file cap
    max_total_size,   \* total cap
    files,            \* scrape_directories: files
    total_size,       \* scrape_directories: total_size
    file_count,       \* scrape_directories: file_count
    i,                \* scrape_directories: index of the directory being scanned
    sd_files,         \* scrape_directory: files
    sd_total_size,    \* scrape_directory: total_size
    sd_file_count,    \* scrape_directory: file_count
    walk,             \* scrape_directory: the tuples os.walk(directory) yields
    w,                \* scrape_directory: index of the current os.walk tuple
    j,                \* scrape_directory: index of the current filename
    log,              \* console: the "Scraping directory" notices, in order
    last_io,          \* results of the OS calls made for the last candidate
    output            \* the JSON document written by main, or NoOutput

vars == <<pc, args, extensions, directories, ignore_dirs, max_size,
          max_total_size, files, total_size, file_count, i, sd_files,
          sd_total_size, sd_file_count, walk, w, j, log, last_io, output>>

-----------------------------------------------------------------------------
(* Python string primitives on character sequences                         *)

\* Python: needle in hay (substring containment; "" is in every string).
Contains(hay, needle) ==
    \E k \in 0..(Len(hay) - Len(needle)) :
        SubSeq(hay, k + 1, k + Len(needle)) = needle

StartsWith(s, prefix) ==
    Len(s) >= Len(prefix) /\ SubSeq(s, 1, Len(prefix)) = prefix

\* Index of the first occurrence of the character sep in s, 0 if none.
FindChar(s, sep) ==
    IF \E k \in 1..Len(s) : s[k] = sep
    THEN CHOOSE k \in 1..Len(s) :
            s[k] = sep /\ \A m \in 1..(k - 1) : s[m] # sep
    ELSE 0

\* Index of the last occurrence of the character sep in s, 0 if none.
RFindChar(s, sep) ==
    IF \E k \in 1..Len(s) : s[k] = sep
    THEN CHOOSE k \in 1..Len(s) :
            s[k] = sep /\ \A m \in (k + 1)..Len(s) : s[m] # sep
    ELSE 0

\* Python: s.split(sep) for a one-character sep; never returns an empty list.
RECURSIVE Split(_, _)
Split(s, sep) ==
    LET k == FindChar(s, sep) IN
    IF k = 0 THEN <<s>>
    ELSE <<SubSeq(s, 1, k - 1)>> \o Split(SubSeq(s, k + 1, Len(s)), sep)

\* Python: sep.join(parts).
RECURSIVE JoinWith(_, _)
JoinWith(parts, sep) ==
    IF parts = <<>> THEN <<>>
    ELSE IF Len(parts) = 1 THEN parts[1]
    ELSE parts[1] \o <<sep>> \o JoinWith(Tail(parts), sep)

\* Python: s.rstrip("/").
RECURSIVE RStripSlash(_)
RStripSlash(s) ==
    IF s # <<>> /\ s[Len(s)] = "/" THEN RStripSlash(SubSeq(s, 1, Len(s) - 1))
    ELSE s

-----------------------------------------------------------------------------
(* posixpath primitives called by scrape.py                                *)

\* One pass of the component loop of posixpath.normpath.
RECURSIVE NormComps(_, _, _)
NormComps(comps, new_comps, initial_slashes) ==
    IF comps = <<>> THEN new_comps
    ELSE LET comp == Head(comps)
             dotdot == <<".", ".">>
         IN  IF comp = <<>> \/ comp = <<".">>
             THEN NormComps(Tail(comps), new_comps, initial_slashes)
             ELSE IF \/ comp # dotdot
                     \/ (initial_slashes = 0 /\ new_comps = <<>>)
                     \/ (new_comps # <<>> /\ new_comps[Len(new_comps)] = dotdot)
             THEN NormComps(Tail(comps), Append(new_comps, comp), initial_slashes)
             ELSE IF new_comps # <<>>
             THEN NormComps(Tail(comps), SubSeq(new_comps, 1, Len(new_comps) - 1),
                            initial_slashes)
             ELSE NormComps(Tail(comps), new_comps, initial_slashes)

\* os.path.normpath(path)
normpath(path) ==
    IF path = <<>> THEN <<".">>
    ELSE LET initial_slashes ==
                 IF ~StartsWith(path, <<"/">>) THEN 0
                 ELSE IF StartsWith(path, <<"/", "/">>)
                         /\ ~StartsWith(path, <<"/", "/", "/">>) THEN 2
                 ELSE 1
             comps == NormComps(Split(path, "/"), <<>>, initial_slashes)
             joined == [k \in 1..initial_slashes |-> "/"] \o JoinWith(comps, "/")
         IN  IF joined = <<>> THEN <<".">> ELSE joined

\* os.path.join(a, b) for two arguments
join(a, b) ==
    IF StartsWith(b, <<"/">>) THEN b
    ELSE IF a = <<>> \/ a[Len(a)] = "/" THEN a \o b
    ELSE a \o <<"/">> \o b

\* os.path.basename(p)
basename(p) == SubSeq(p, RFindChar(p, "/") + 1, Len(p))

\* os.path.dirname(p)
dirname(p) ==
    LET head == SubSeq(p, 1, RFindChar(p, "/")) IN
    IF head # <<>> /\ (\E k \in 1..Len(head) : head[k] # "/")
    THEN RStripSlash(head)
    ELSE head

-----------------------------------------------------------------------------
(* The file system the run sees                                            *)

DOCS  == <<"d", "o", "c", "s">>
SUB   == <<"s", "u", "b">>
A_DIR == <<"a">>
T_DIR == <<"t">>
P_DIR == <<"p">>
Q_DIR == <<"q">>
A_PY  == <<"a", ".", "p", "y">>
B_TXT == <<"b", ".", "t", "x", "t">>
C_PY  == <<"c", ".", "p", "y">>
F_PY  == <<"f", ".", "p", "y">>
X_PY  == <<"x", ".", "p", "y">>
Y_PY  == <<"y", ".", "p", "y">>
Z_PY  == <<"z", ".", "p", "y">>
PY    == <<"p", "y">>
TXT   == <<"t", "x", "t">>

\* os.path.getsize raised (caught in get_file_size) / was not called.
StatError == -1
StatNotCalled == -2
\* open/read raised (caught in get_file_content) / was not called.
ReadError == "ReadError"
ReadNotCalled == "ReadNotCalled"
\* Python's None, as a file content.
None == "None"

\* A file that nobody touches during the run: every stat returns its size
\* and every read its content.
StableFile(name, size, text) ==
    [name |-> name, stats |-> {size}, reads |-> {text}]

\* A file that another process rewrites, truncates, deletes or locks during
\* the run: a stat may fail or return any of the sizes the file has during
\* the run, a read may fail or return nothing.
VolatileFile(name, sizes, text) ==
    [name |-> name,
     stats |-> {StatError} \cup sizes,
     reads |-> {ReadError, "", text}]

\* The directories below the working directory, as paths of segments.
FSDirs == {<<DOCS>>, <<DOCS, SUB>>, <<A_DIR>>,
           <<T_DIR>>, <<T_DIR, P_DIR>>, <<T_DIR, Q_DIR>>}

\* os.scandir(node): the sub-directories and the files of a directory.
ListDir(node) ==
    CASE node = <<DOCS>> ->
           [dirs |-> <<SUB>>,
            files |-> <<StableFile(A_PY, 50, "text a"),
                        StableFile(B_TXT, 30, "text b")>>]
      [] node = <<DOCS, SUB>> ->
           [dirs |-> <<>>, files |-> <<StableFile(C_PY, 20, "text c")>>]
      [] node = <<A_DIR>> ->
           [dirs |-> <<>>, files |-> <<StableFile(F_PY, 3, "text f")>>]
      [] node = <<T_DIR>> ->
           [dirs |-> <<P_DIR, Q_DIR>>,
            files |-> <<VolatileFile(X_PY, {3, 4, 5}, "text x")>>]
      [] node = <<T_DIR, P_DIR>> ->
           [dirs |-> <<>>, files |-> <<StableFile(Y_PY, 4, "text y")>>]
      [] node = <<T_DIR, Q_DIR>> ->
           [dirs |-> <<>>, files |-> <<StableFile(Z_PY, 4, "text z")>>]

\* os.walk below one directory, top-down: the tuple of the directory, then
\* the tuples of each sub-directory under the root os.path.join(root, d).
RECURSIVE WalkNode(_, _)
RECURSIVE WalkSubDirs(_, _, _)
WalkNode(root, node) ==
    <<[root |-> root, node |-> node]>>
        \o WalkSubDirs(root, node, ListDir(node).dirs)
WalkSubDirs(root, node, dirs) ==
    IF dirs = <<>> THEN <<>>
    ELSE WalkNode(join(root, Head(dirs)), Append(node, Head(dirs)))
            \o WalkSubDirs(root, node, Tail(dirs))

\* os.walk(top): nothing when top is not a directory (scandir's error is
\* swallowed by os.walk).  Every top the model uses lies below the working
\* directory.
os_walk(top) ==
    LET node == Split(normpath(top), "/") IN
    IF node \in FSDirs THEN WalkNode(top, node) ELSE <<>>

\* the filenames of one os.walk tuple
Filenames(entry) == ListDir(entry.node).files

-----------------------------------------------------------------------------
(* The functions of scrape.py                                              *)

get_file_extension(filename) ==
    LET parts == Split(filename, ".") IN
    IF Len(parts) > 1 THEN parts[Len(parts)] ELSE <<>>

\* st is what os.path.getsize does: a size, or StatError when it raises
get_file_size(st) == IF st = StatError THEN 0 ELSE st

\* rd is what open/read does: the text, or ReadError when it raises
get_file_content(rd) == IF rd = ReadError THEN None ELSE rd

confirm_extension(filename, exts) == get_file_extension(filename) \in exts

file_in_ignore_dirs(filename, ignores) ==
    \E k \in 1..Len(ignores) : Contains(filename, ignores[k])

ScrapeFile(name, directory, content, size) ==
    [name |-> name, directory |-> directory, content |-> content, size |-> size]

\* the size check without its upper limit
SizeRejectedNoCap(size, maxsize) == size = 0 \/ size <= 0

\* the size check of scrape_file: TRUE when the file is rejected
SizeRejected(size, maxsize) == size = 0 \/ size <= 0 \/ size > maxsize

\* scrape_file: <<>> for None, <<record>> for a record.  st and rd are the
\* results of the stat and of the read it makes.
scrape_file(filename, exts, maxsize, st, rd) ==
    IF ~confirm_extension(filename, exts) THEN <<>>
    ELSE LET size == get_file_size(st) IN
         IF SizeRejected(size, maxsize) THEN <<>>
         ELSE LET content == get_file_content(rd) IN
              IF content = None \/ content = "" THEN <<>>
              ELSE <<ScrapeFile(basename(filename), dirname(filename),
                                content, size)>>

remove_dot_from_extension(extension) ==
    IF extension[1] = "." THEN Tail(extension) ELSE extension

RECURSIVE DedupLoop(_, _, _)
DedupLoop(paths, paths_os_normalized, paths_filtered) ==
    IF paths = <<>> THEN paths_filtered
    ELSE LET path == Head(paths)
             path_normalized == normpath(path)
         IN  IF path_normalized \in paths_os_normalized
             THEN DedupLoop(Tail(paths), paths_os_normalized, paths_filtered)
             ELSE DedupLoop(Tail(paths),
                            paths_os_normalized \cup {path_normalized},
                            Append(paths_filtered, path))

\* duplicates recognised by the strings as given, not by their normal form
RECURSIVE DedupLoopRaw(_, _, _)
DedupLoopRaw(paths, paths_seen, paths_filtered) ==
    IF paths = <<>> THEN paths_filtered
    ELSE IF Head(paths) \in paths_seen
         THEN DedupLoopRaw(Tail(paths), paths_seen, paths_filtered)
         ELSE DedupLoopRaw(Tail(paths), paths_seen \cup {Head(paths)},
                           Append(paths_filtered, Head(paths)))

remove_duplicate_paths_raw(paths) == DedupLoopRaw(paths, {}, <<>>)

remove_duplicate_paths(paths) == DedupLoop(paths, {}, <<>>)

-----------------------------------------------------------------------------
(* Inputs                                                                  *)

\* Longest directory list a caller hands to scrape_directories.
MaxDirs == 2

\* Longest directory list given on the command line.
MaxArgDirs == 3

\* ListsOver(S, n): the non-empty lists of at most n elements of S
ListsOver(S, n) == UNION {[1..k -> S] : k \in 1..n}

\* directory strings a caller may pass to scrape_directories
LibDirStrings == {DOCS, T_DIR, A_DIR, <<"a", "/", "/">>}
LibExtensionSets == {{PY}, {PY, TXT}}
LibIgnoreLists == {<<>>, <<SUB>>, <<Q_DIR>>, <<<<"a", "/", "f">>>>}
LibFileCaps == {4, 1000}
LibTotalCaps == {3, 5, 1000}

\* the comma separated command-line values
MainDirStrings == {DOCS, T_DIR, A_DIR, <<".", "/", "a">>, <<>>}
MainDirArgs == {JoinWith(l, ",") : l \in ListsOver(MainDirStrings, MaxArgDirs)}
MainExtensionArgs == {PY, <<".">> \o PY \o <<",">> \o TXT, <<>>}
MainIgnoreArgs == {<<>>, SUB}
MainFileCaps == {1000}
MainTotalCaps == {5, 1000}

NoArgs == <<>>
NoIO == [stat1 |-> StatNotCalled, read |-> ReadNotCalled, stat2 |-> StatNotCalled]
NoOutput == <<>>

-----------------------------------------------------------------------------
(* scrape_directories and scrape_directory                                 *)

\* for i, directory in enumerate(directories): the notice, then the call of
\* scrape_directory up to its os.walk loop
ScrapeDirectoriesIter ==
    /\ pc = "scrape_directories"
    /\ i <= Len(directories)
    /\ log' = Append(log, directories[i])
    /\ sd_files' = <<>>
    /\ sd_total_size' = 0
    /\ sd_file_count' = 0
    /\ walk' = os_walk(directories[i])
    /\ w' = 1
    /\ j' = 1
    /\ pc' = "scrape_directory"
    /\ UNCHANGED <<args, extensions, directories, ignore_dirs, max_size,
                   max_total_size, files, total_size, file_count, i, last_io,
                   output>>

\* One iteration of `for filename in filenames`.  st1, rd and st2 are what
\* the OS answers to the stat made by scrape_file, to the read, and to the
\* stat made after the append.
ScrapeCandidate ==
    /\ pc = "scrape_directory"
    /\ w <= Len(walk)
    /\ j <= Len(Filenames(walk[w]))
    /\ LET f == Filenames(walk[w])[j]
           filepath == join(walk[w].root, f.name)
       IN  \E st1 \in f.stats, rd \in f.reads, st2 \in f.stats :
           IF file_in_ignore_dirs(filepath, ignore_dirs)
           THEN /\ j' = j + 1
                /\ last_io' = NoIO
                /\ UNCHANGED <<sd_files, sd_total_size, sd_file_count>>
           ELSE LET file == scrape_file(filepath, extensions, max_size, st1, rd)
                    stat_called == confirm_extension(filepath, extensions)
                    read_called == /\ stat_called
                                   /\ ~SizeRejected(get_file_size(st1), max_size)
                    new_total == sd_total_size + get_file_size(st2)
                IN  /\ last_io' =
                          [stat1 |-> IF stat_called THEN st1 ELSE StatNotCalled,
                           read  |-> IF read_called THEN rd ELSE ReadNotCalled,
                           stat2 |-> IF file # <<>> THEN st2 ELSE StatNotCalled]
                    /\ IF file # <<>>
                       THEN /\ sd_files' = Append(sd_files, file[1])
                            /\ sd_total_size' = new_total
                            /\ IF new_total > max_total_size
                               THEN \* break: leaves `for filename in filenames`
                                    /\ j' = Len(Filenames(walk[w])) + 1
                                    /\ UNCHANGED sd_file_count
                               ELSE /\ j' = j + 1
                                    /\ sd_file_count' = sd_file_count + 1
                       ELSE /\ j' = j + 1
                            /\ UNCHANGED <<sd_files, sd_total_size, sd_file_count>>
    /\ UNCHANGED <<pc, args, extensions, directories, ignore_dirs, max_size,
                   max_total_size, files, total_size, file_count, i, walk, w,
                   log, output>>

\* `for root, _, filenames in os.walk(directory)`: the filenames of one
\* tuple are exhausted (or left by break), the next tuple is taken
WalkNextRoot ==
    /\ pc = "scrape_directory"
    /\ w <= Len(walk)
    /\ j > Len(Filenames(walk[w]))
    /\ w' = w + 1
    /\ j' = 1
    /\ UNCHANGED <<pc, args, extensions, directories, ignore_dirs, max_size,
                   max_total_size, files, total_size, file_count, i, sd_files,
                   sd_total_size, sd_file_count, walk, log, last_io, output>>

\* scrape_directory returns; scrape_directories accumulates and tests the cap
ScrapeDirectoryReturn ==
    /\ pc = "scrape_directory"
    /\ w > Len(walk)
    /\ files' = files \o sd_files
    /\ total_size' = total_size + sd_total_size
    /\ file_count' = file_count + sd_file_count
    /\ IF total_size' > max_total_size
       THEN /\ pc' = "returned"
            /\ UNCHANGED i
       ELSE /\ pc' = "scrape_directories"
            /\ i' = i + 1
    /\ UNCHANGED <<args, extensions, directories, ignore_dirs, max_size,
                   max_total_size, sd_files, sd_total_size, sd_file_count,
                   walk, w, j, log, last_io, output>>

\* the directory list is exhausted: return files, total_size, file_count
ScrapeDirectoriesReturn ==
    /\ pc = "scrape_directories"
    /\ i > Len(directories)
    /\ pc' = "returned"
    /\ UNCHANGED <<args, extensions, directories, ignore_dirs, max_size,
                   max_total_size, files, total_size, file_count, i, sd_files,
                   sd_total_size, sd_file_count, walk, w, j, log, last_io,
                   output>>

Scrape ==
    \/ ScrapeDirectoriesIter
    \/ ScrapeCandidate
    \/ WalkNextRoot
    \/ ScrapeDirectoryReturn
    \/ ScrapeDirectoriesReturn

\* the locals of scrape_directories at its entry
ScrapeEntry ==
    /\ files = <<>>
    /\ total_size = 0
    /\ file_count = 0
    /\ i = 1
    /\ sd_files = <<>>
    /\ sd_total_size = 0
    /\ sd_file_count = 0
    /\ walk = <<>>
    /\ w = 1
    /\ j = 1
    /\ log = <<>>
    /\ last_io = NoIO
    /\ output = NoOutput

\* A caller invokes scrape_directories directly.
LibInit ==
    /\ pc = "scrape_directories"
    /\ args = NoArgs
    /\ directories \in ListsOver(LibDirStrings, MaxDirs)
    /\ extensions \in LibExtensionSets
    /\ ignore_dirs \in LibIgnoreLists
    /\ max_size \in LibFileCaps
    /\ max_total_size \in LibTotalCaps
    /\ ScrapeEntry

LibNext == Scrape

LibSpec == LibInit /\ [][LibNext]_vars

-----------------------------------------------------------------------------
(* main                                                                    *)

\* lines 201-208: the extension set, the directory list and the ignore
\* list.  remove_dot_from_extension indexes extension[0], which raises
\* IndexError on an empty extension: the run dies with a traceback.
MainParse ==
    /\ pc = "main"
    /\ LET ext_args == Split(args.extensions, ",")
           ign_args == remove_duplicate_paths(Split(args.ignore_dirs, ","))
       IN  IF \E k \in 1..Len(ext_args) : ext_args[k] = <<>>
           THEN /\ pc' = "crashed"
                /\ UNCHANGED <<extensions, directories, ignore_dirs>>
           ELSE /\ pc' = "validate"
                /\ extensions' = {remove_dot_from_extension(ext_args[k]) :
                                     k \in 1..Len(ext_args)}
                /\ directories' = Split(args.dirs, ",")
                /\ ignore_dirs' = [k \in 1..Len(ign_args) |-> normpath(ign_args[k])]
    /\ UNCHANGED <<args, max_size, max_total_size, files, total_size,
                   file_count, i, sd_files, sd_total_size, sd_file_count,
                   walk, w, j, log, last_io, output>>

\* lines 211-219: deduplicate the directories, validate, call
\* scrape_directories
MainValidate ==
    /\ pc = "validate"
    /\ directories' = remove_duplicate_paths(directories)
    /\ pc' = IF directories' = <<>> THEN "exit1"
             ELSE IF extensions = {} THEN "exit1"
             ELSE "scrape_directories"
    /\ UNCHANGED <<args, extensions, ignore_dirs, max_size, max_total_size,
                   files, total_size, file_count, i, sd_files, sd_total_size,
                   sd_file_count, walk, w, j, log, last_io, output>>

\* lines 220-223: the JSON document is written, the run ends with status 0
MainWrite ==
    /\ pc = "returned"
    /\ output' = <<[files |-> files, total_size |-> total_size,
                    file_count |-> file_count]>>
    /\ pc' = "exit0"
    /\ UNCHANGED <<args, extensions, directories, ignore_dirs, max_size,
                   max_total_size, files, total_size, file_count, i, sd_files,
                   sd_total_size, sd_file_count, walk, w, j, log, last_io>>

\* The run starts through main with a parsed command line.
Init ==
    /\ pc = "main"
    /\ args \in [extensions : MainExtensionArgs,
                 max_size : MainFileCaps,
                 max_total_size : MainTotalCaps,
                 ignore_dirs : MainIgnoreArgs,
                 dirs : MainDirArgs]
    /\ extensions = {}
    /\ directories = <<>>
    /\ ignore_dirs = <<>>
    /\ max_size = args.max_size
    /\ max_total_size = args.max_total_size
    /\ ScrapeEntry

Next ==
    \/ MainParse
    \/ MainValidate
    \/ Scrape
    \/ MainWrite

Spec == Init /\ [][Next]_vars

-----------------------------------------------------------------------------
(* Properties                                                              *)

RECURSIVE SumSizes(_)
SumSizes(records) ==
    IF records = <<>> THEN 0 ELSE Head(records).size + SumSizes(Tail(records))

\* the path a record stands for: its directory joined with its name
FullPath(record) == join(record.directory, record.name)

\* a step of ScrapeCandidate, recognised by its effect on the loop position
CandidateStep == pc = "scrape_directory" /\ pc' = pc /\ w' = w /\ j' # j

\* C1: started through main with --ignore-dirs left at its default, the
\* scenario docs/ {a.py 50, b.txt 30, sub/c.py 20}, extensions "py", both
\* caps 1000, ends with file_count = 2, files a.py and sub/c.py, total 70.
C1_DefaultIgnoreScenario ==
    (/\ pc = "exit0"
     /\ args.dirs = DOCS
     /\ args.extensions = PY
     /\ args.ignore_dirs = <<>>
     /\ args.max_size = 1000
     /\ args.max_total_size = 1000)
    => /\ output[1].file_count = 2
       /\ output[1].total_size = 70
       /\ [k \in 1..Len(output[1].files) |-> FullPath(output[1].files[k])]
             = <<join(DOCS, A_PY), join(join(DOCS, SUB), C_PY)>>

\* C2: once the running total of the directory being scanned exceeds
\* max_total_size, no further file is collected and no further directory
\* is scanned.
C2_CrossingFileIsLast ==
    [][(pc = "scrape_directory" /\ sd_total_size > max_total_size)
          => (sd_files' = sd_files /\ log' = log)]_vars

\* C3: in every state total_size is the sum of the size fields of the
\* records collected, in scrape_directory and in scrape_directories.
C3_TotalIsSumOfSizes ==
    /\ sd_total_size = SumSizes(sd_files)
    /\ total_size = SumSizes(files)

\* C4: in the result of scrape_directories the count lags the file list by
\* at most one.
C4_CountLagsByAtMostOne ==
    pc = "returned"
        => file_count <= Len(files) /\ Len(files) - file_count <= 1

\* C5: the cap is aggregate: a file is collected only if the sizes collected
\* before it over all directories do not exceed max_total_size.  Stated for
\* the collections made while the directory being scanned has itself not
\* crossed the cap and the running totals agree with the records.
C5_AggregateCap ==
    [][(/\ CandidateStep
        /\ Len(sd_files') > Len(sd_files)
        /\ sd_total_size = SumSizes(sd_files)
        /\ total_size = SumSizes(files)
        /\ SumSizes(sd_files) <= max_total_size)
          => SumSizes(files) + SumSizes(sd_files) <= max_total_size]_vars

\* C6: every record has 0 < size <= max_size, and a candidate whose stat in
\* scrape_file fails, returns 0 or returns more than max_size is not read
\* and yields no record.
C6_RecordSizeInBounds ==
    /\ \A k \in 1..Len(sd_files) :
          0 < sd_files[k].size /\ sd_files[k].size <= max_size
    /\ \A k \in 1..Len(files) :
          0 < files[k].size /\ files[k].size <= max_size
    /\ (last_io.stat1 # StatNotCalled
          /\ (last_io.stat1 = StatError \/ last_io.stat1 = 0
                \/ last_io.stat1 > max_size))
        => last_io.read = ReadNotCalled /\ last_io.stat2 = StatNotCalled

\* a candidate larger than max_size has just been rejected while a record
\* of an earlier directory is held
C6_Witness ==
    /\ pc = "scrape_directory"
    /\ files # <<>>
    /\ last_io.stat1 > max_size
    /\ sd_files = <<>>

\* C7: after main's deduplication the directory list is the list of first
\* occurrences, under equality of normalized paths, of the directories
\* given, each as the original string and in the original order; given
\* "a,./a" the run scans "a" exactly once.
C7_FirstOccurrencesKept ==
    LET raw == Split(args.dirs, ",")
        out == directories
        First(k) == \A m \in 1..(k - 1) : normpath(raw[m]) # normpath(raw[k])
    IN  /\ pc \notin {"main", "validate", "crashed"} =>
             /\ \A m, n \in 1..Len(out) :
                   m # n => normpath(out[m]) # normpath(out[n])
             /\ \A k \in 1..Len(raw) :
                   \E n \in 1..Len(out) : normpath(out[n]) = normpath(raw[k])
             /\ \E f \in [1..Len(out) -> 1..Len(raw)] :
                   /\ \A m, n \in 1..Len(out) : m < n => f[m] < f[n]
                   /\ \A n \in 1..Len(out) : out[n] = raw[f[n]] /\ First(f[n])
        /\ (pc = "exit0" /\ raw = <<A_DIR, <<".", "/", "a">>>>)
             => log = <<A_DIR>>

\* the run given "a,./a" has ended after scanning "a" once
C7_Witness ==
    /\ pc = "exit0"
    /\ Split(args.dirs, ",") = <<A_DIR, <<".", "/", "a">>>>
    /\ directories = <<A_DIR>>
    /\ log = <<A_DIR>>
    /\ files # <<>>

\* C8: no record collected has a full path (directory joined with name)
\* that contains an entry of the ignore list.
C8_NoIgnoredPathCollected ==
    \A k \in 1..Len(sd_files) : \A n \in 1..Len(ignore_dirs) :
        ~Contains(FullPath(sd_files[k]), ignore_dirs[n])

\* C9: a run whose directories argument or extensions argument is empty
\* ends before the traversal: it never calls scrape_directories, scans
\* nothing and writes nothing.
C9_EmptyArgumentAborts ==
    (args.dirs = <<>> \/ args.extensions = <<>>)
        => /\ pc \in {"main", "validate", "exit1", "crashed"}
           /\ log = <<>>
           /\ output = NoOutput

\* C10: a candidate on which a stat or a read fails yields no record, adds
\* nothing to the totals, and the loop goes on to the next candidate.
C10_FailureIsRejection ==
    [][(/\ CandidateStep
        /\ \/ last_io'.stat1 = StatError
           \/ last_io'.read = ReadError
           \/ last_io'.stat2 = StatError)
          => /\ sd_files' = sd_files
             /\ sd_total_size' = sd_total_size
             /\ sd_file_count' = sd_file_count
             /\ j' = j + 1]_vars

====
